---- MODULE Spec2Model ----
(***************************************************************************)
(* Achievement viewer: roster construction (GameLoader processGameData),   *)
(* completion aggregation (GameRenderer displayGames, HubRenderer          *)
(* loadGameData) and cross-profile comparison (GameCompare).               *)
(*                                                                         *)
(* JavaScript values are modelled by tagged records so that === and        *)
(* truthiness keep their meaning: true, 1 and 2 are three different values, *)
(* all truthy; false, 0 and undefined are three different falsy values.    *)
(* A JSON object is a function from the keys it holds; its iteration order *)
(* (Object.keys, for..in) is the order of KeyOrder.  Display fields (name, *)
(* description, icons, rarity) play no part in counting or comparing and   *)
(* are not modelled.                                                       *)
(***************************************************************************)
EXTENDS Integers, Sequences, FiniteSets, TLC

\* ------------------------------------------------------------- bounds
MaxBlacklist == 2      \* longest exclusion list drawn
MaxGames == 2          \* most games in a drawn game-data.json
MaxCount == 40         \* largest count handed to calculatePercentage
MaxPending == 1        \* most loads in flight behind the newest handler
MaxVs == 2             \* most vs parameters in a drawn query
MaxChecks == 2         \* most checkPassport runs followed on one page

\* ------------------------------------------------------ JavaScript values
Undef == [t |-> "undefined", v |-> 0]
JsTrue == [t |-> "bool", v |-> 1]
JsFalse == [t |-> "bool", v |-> 0]
Num(n) == [t |-> "num", v |-> n]

\* ToBoolean of a value
Truthy(x) == (x.t = "bool" /\ x.v = 1) \/ (x.t = "num" /\ x.v # 0)

\* a || b
JsOr(a, b) == IF Truthy(a) THEN a ELSE b

\* x === true || x === 1
IsTrueOrOne(x) == x = JsTrue \/ x = Num(1)

\* ------------------------------------------------------------- keys
\* Achievement api names.  Key is the universe the general inputs draw
\* from; the longer list serves the ten-achievement scenario.
KeyOrder == <<"K01", "K02", "K03", "K04", "K05", "K06", "K07", "K08", "K09", "K10">>
Key == {"K01", "K02", "K03"}

\* Object.keys(obj) / for (key in obj): the keys of obj in iteration order
ObjectKeys(obj) == SelectSeq(KeyOrder, LAMBDA k : k \in DOMAIN obj)

\* Array.prototype.includes
Includes(arr, x) == \E i \in 1..Len(arr) : arr[i] = x

\* ------------------------------------------------------- save entries
\* One achievement's state object in a keyed save mapping; a field the
\* object does not carry reads as undefined.
SaveEntry(earned, unlocked, achieved, earned_time, unlock_time, unlocktime) ==
    [earned |-> earned, unlocked |-> unlocked, achieved |-> achieved,
     earned_time |-> earned_time, unlock_time |-> unlock_time,
     unlocktime |-> unlocktime]

EarnedTrue == SaveEntry(JsTrue, Undef, Undef, Num(7), Undef, Undef)
EarnedOne == SaveEntry(Num(1), Undef, Undef, Num(7), Undef, Undef)
EarnedFalse == SaveEntry(JsFalse, Undef, Undef, Num(0), Undef, Undef)
EarnedOther == SaveEntry(Num(2), Undef, Undef, Undef, Undef, Undef)
LegacyAchieved == SaveEntry(Undef, Undef, Num(1), Undef, Undef, Num(7))
EarnedLater == SaveEntry(JsTrue, Undef, Undef, Num(9), Undef, Undef)

\* { earned: true, earnedTime: 7 }: the time under a name no code reads
CamelTimed ==
    [earned |-> JsTrue, unlocked |-> Undef, achieved |-> Undef,
     earned_time |-> Undef, unlock_time |-> Undef, unlocktime |-> Undef,
     earnedTime |-> Num(7)]

\* game-info.json: null, or an object that may carry an achievements
\* schema (here its key set) and a blacklist array.
NullInfo == [present |-> FALSE, hasAchievements |-> FALSE, achievements |-> {},
             blacklist |-> <<>>]
Info(hasAch, schema, bl) == [present |-> TRUE, hasAchievements |-> hasAch,
                             achievements |-> schema, blacklist |-> bl]

\* gameInfo?.blacklist || []
BlacklistOf(gameInfo) == IF gameInfo.present THEN gameInfo.blacklist ELSE <<>>

\* ------------------------------------------------ GameLoader.processGameData
\* unlocked: userAch ? (userAch.earned || userAch.unlocked || userAch.achieved || false) : false
UnlockedOf(achData, key) ==
    IF key \in DOMAIN achData
    THEN JsOr(achData[key].earned,
              JsOr(achData[key].unlocked, JsOr(achData[key].achieved, JsFalse)))
    ELSE JsFalse

\* unlocktime: userAch ? (userAch.earned_time || userAch.unlock_time || userAch.unlocktime || 0) : 0
UnlockTimeOf(achData, key) ==
    IF key \in DOMAIN achData
    THEN JsOr(achData[key].earned_time,
              JsOr(achData[key].unlock_time, JsOr(achData[key].unlocktime, Num(0))))
    ELSE Num(0)

\* the object pushed onto achievements
Achievement(achData, key) ==
    [apiname |-> key, unlocked |-> UnlockedOf(achData, key),
     unlocktime |-> UnlockTimeOf(achData, key)]

\* Variant that looks at the first entry of the list only; C18 tells it
\* from SkipBlacklisted.
SkipBlacklistedByFirst(keys, blacklist) ==
    SelectSeq(keys, LAMBDA k : blacklist = <<>> \/ k # blacklist[1])

\* Variant that skips nothing; C9 tells it from SkipBlacklisted.
SkipBlacklistedNever(keys, blacklist) == keys

\* if (blacklist.includes(key)) continue;
SkipBlacklisted(keys, blacklist) ==
    SelectSeq(keys, LAMBDA k : ~Includes(blacklist, k))

\* Variant that always runs over the save mapping's keys; C10 tells it
\* from RosterSourceKeys.
RosterSourceKeysOfSave(achData, gameInfo) == ObjectKeys(achData)

\* The keys the loop runs over: the schema's when gameInfo.achievements is
\* truthy (an empty object is), the save mapping's otherwise.
RosterSourceKeys(achData, gameInfo) ==
    IF gameInfo.present /\ gameInfo.hasAchievements
    THEN ObjectKeys([k \in gameInfo.achievements |-> TRUE])
    ELSE ObjectKeys(achData)

\* The game record stored by gamesData.set(appId, ...)
ProcessGameData(appId, achData, gameInfo) ==
    LET keys == SkipBlacklisted(RosterSourceKeys(achData, gameInfo),
                                BlacklistOf(gameInfo))
    IN  [appId |-> appId,
         achievements |-> [i \in 1..Len(keys) |-> Achievement(achData, keys[i])]]

\* loadGamesFromAppIds' array conversion: entries with a truthy apiname are
\* stored under it (a later one overwrites an earlier one) as
\* { earned: ach.achieved === 1, earned_time: ach.unlocktime || 0 }
ConvertArrayOfLoaderTruthy(arr) ==
    [k \in {arr[i].apiname : i \in 1..Len(arr)} \ {""} |->
        LET last == CHOOSE i \in 1..Len(arr) :
                        /\ arr[i].apiname = k
                        /\ \A j \in 1..Len(arr) : arr[j].apiname = k => j <= i
        IN  SaveEntry(IF Truthy(arr[last].achieved) THEN JsTrue ELSE JsFalse,
                      Undef, Undef, JsOr(arr[last].unlocktime, Num(0)), Undef, Undef)]

ConvertArrayOfLoader(arr) ==
    [k \in {arr[i].apiname : i \in 1..Len(arr)} \ {""} |->
        LET last == CHOOSE i \in 1..Len(arr) :
                        /\ arr[i].apiname = k
                        /\ \A j \in 1..Len(arr) : arr[j].apiname = k => j <= i
        IN  SaveEntry(IF arr[last].achieved = Num(1) THEN JsTrue ELSE JsFalse,
                      Undef, Undef, JsOr(arr[last].unlocktime, Num(0)), Undef, Undef)]

\* if (Array.isArray(achievementsData)) { ... achievementsData = converted; }
NormalizeLoaded(body) ==
    IF body.kind = "array" THEN ConvertArrayOfLoader(body.array) ELSE body.map

\* gamesData.set(appId, game): a Map keeps the position of a key it
\* already holds and appends a new one.
MapSet(map, appId, game) ==
    IF \E i \in 1..Len(map) : map[i].appId = appId
    THEN [i \in 1..Len(map) |-> IF map[i].appId = appId THEN game ELSE map[i]]
    ELSE Append(map, game)

\* ------------------------------------------------ utils.calculatePercentage
\* Math.round((unlocked / total) * 100) in IEEE 754 double arithmetic, for
\* integers unlocked >= 0 and total > 0.  The division rounds unlocked/total
\* to a 53-bit mantissa, the product rounds again, and Math.round takes the
\* nearest integer, a half going up.  Both roundings are far smaller than
\* 1/(2*total), so the result is the exact round(100*unlocked/total) unless
\* 100*unlocked/total is exactly n + 1/2; then it is n when the two
\* roundings leave the product below n + 1/2, and n + 1 otherwise.
RECURSIVE FloorLog2(_, _)
\* the largest e with 2^e <= a / b, for a, b > 0
FloorLog2(a, b) ==
    IF a >= b
    THEN IF a >= 2 * b THEN 1 + FloorLog2(a, 2 * b) ELSE 0
    ELSE FloorLog2(2 * a, b) - 1

RECURSIVE Pow2(_)
Pow2(n) == IF n = 0 THEN 1 ELSE 2 * Pow2(n - 1)

RECURSIVE Pow2Mod(_, _)
\* 2^n modulo m
Pow2Mod(n, m) == IF n = 0 THEN 1 % m ELSE (2 * Pow2Mod(n - 1, m)) % m

\* unlocked / total: the quotient's mantissa is unlocked * 2^k / total
\* rounded to an integer, k = 52 - FloorLog2(unlocked, total); this is the
\* remainder the rounding drops (2 * remainder < total: rounded down).
DivisionRemainder(unlocked, total) ==
    (unlocked * Pow2Mod(52 - FloorLog2(unlocked, total), total)) % total

MathRoundTimes100(unlocked, total) ==
    LET nearest == (200 * unlocked + total) \div (2 * total)
    IN  IF unlocked = 0 THEN 0
        ELSE IF (200 * unlocked) % (2 * total) # total THEN nearest
        ELSE LET n == nearest - 1
                 eq == FloorLog2(unlocked, total)
                 eh == FloorLog2(2 * n + 1, 2)
                 r == DivisionRemainder(unlocked, total)
             IN  \* quotient exact or rounded up: the product is >= n + 1/2
                 IF r = 0 \/ 2 * r > total THEN nearest
                 \* rounded down by r / (total * 2^k): the product rounds
                 \* back to n + 1/2 only within half an ulp of it
                 ELSE IF 100 * r <= total * Pow2(eh - eq - 1) THEN nearest
                 ELSE n

\* return total > 0 ? Math.round((unlocked / total) * 100) : 0;
CalculatePercentage(unlocked, total) ==
    IF total > 0 THEN MathRoundTimes100(unlocked, total) ELSE 0

\* ------------------------------- GameRenderer.renderDetailViewWithComparison
\* What renderGameDetail puts on the page for a session: the normal view, the
\* "Loading comparison data..." div while comparisonData is null, and
\* otherwise what renderComparisonView returns, which is the "No Data Found"
\* box whenever comparisonData.hasData is falsy (the placeholder
\* { hasData: false, loading: true } included: loading is never read).
DetailView(session) ==
    IF ~session.open THEN "grid"
    ELSE IF ~session.compareMode THEN "normal"
    ELSE IF session.comparisonData.isNull THEN "loading"
    ELSE IF ~session.comparisonData.hasData THEN "no-data"
    ELSE "comparison"

\* --------------------------------------- GameRenderer.renderDetailViewNormal
\* The sort modes whose keys the roster carries.
SortModes == {"default", "date-newest", "date-oldest"}

\* (a.unlocktime || 0)
TimeOrZero(a) == IF Truthy(a.unlocktime) THEN a.unlocktime.v ELSE 0

\* Array.prototype.sort under (b.unlocktime || 0) - (a.unlocktime || 0), or
\* the reverse: a stable sort.
RECURSIVE SortedByTime(_, _)
SortedByTime(list, mode) ==
    IF list = <<>> \/ mode = "default" THEN list
    ELSE LET rest == SortedByTime(SubSeq(list, 1, Len(list) - 1), mode)
             x == list[Len(list)]
             NotAfter(y) == IF mode = "date-newest"
                            THEN TimeOrZero(y) >= TimeOrZero(x)
                            ELSE TimeOrZero(y) <= TimeOrZero(x)
             k == Cardinality({i \in 1..Len(rest) : NotAfter(rest[i])})
         IN  SubSeq(rest, 1, k) \o <<x>> \o SubSeq(rest, k + 1, Len(rest))

\* The unlocked achievements in the order the normal view lists them:
\* game.achievements.filter(a => a.unlocked), then sorted.
UnlockedAchievementsView(game, sortMode) ==
    SortedByTime(SelectSeq(game.achievements, LAMBDA a : Truthy(a.unlocked)), sortMode)

\* ---------------------------------------------- GameRenderer.displayGames
\* game.achievements.filter(a => a.unlocked).length
UnlockedCount(game) == Len(SelectSeq(game.achievements, LAMBDA a : Truthy(a.unlocked)))

\* if (game.achievements.length > 0 && unlocked === game.achievements.length) perfectGames++
DisplayCountsPerfect(game) ==
    Len(game.achievements) > 0 /\ UnlockedCount(game) = Len(game.achievements)

RECURSIVE DisplayLoop(_, _, _)
\* for (let game of gamesData.values()) { ... }
DisplayLoop(games, i, acc) ==
    IF i > Len(games) THEN acc
    ELSE DisplayLoop(games, i + 1,
            [acc EXCEPT !.totalAchievements = @ + Len(games[i].achievements),
                        !.totalUnlocked = @ + UnlockedCount(games[i]),
                        !.perfectGames = @ + (IF DisplayCountsPerfect(games[i]) THEN 1 ELSE 0)])

NoSummary == [shown |-> FALSE, totalGames |-> 0, totalAchievements |-> 0,
              totalUnlocked |-> 0, perfectGames |-> 0, overallPercentage |-> 0]

\* Variant that takes the first game's percentage for the overall one;
\* C17 tells it from DisplayGamesTotals.
DisplayGamesTotalsOfFirst(games) ==
    IF Len(games) = 0 THEN NoSummary
    ELSE LET totals == DisplayLoop(games, 1,
                    [shown |-> TRUE, totalGames |-> Len(games), totalAchievements |-> 0,
                     totalUnlocked |-> 0, perfectGames |-> 0, overallPercentage |-> 0])
         IN  [totals EXCEPT !.overallPercentage =
                 CalculatePercentage(UnlockedCount(games[1]), Len(games[1].achievements))]

\* The totals handed to renderSummary; nothing is rendered for an empty map.
DisplayGamesTotals(games) ==
    IF Len(games) = 0 THEN NoSummary
    ELSE LET totals == DisplayLoop(games, 1,
                    [shown |-> TRUE, totalGames |-> Len(games), totalAchievements |-> 0,
                     totalUnlocked |-> 0, perfectGames |-> 0, overallPercentage |-> 0])
         IN  [totals EXCEPT !.overallPercentage =
                 CalculatePercentage(totals.totalUnlocked, totals.totalAchievements)]

\* ----------------------------------------------- HubRenderer.loadGameData
\* g.info && g.info.achievements && Object.keys(g.info.achievements).length > 0
HasFullSchema(g) ==
    g.info.present /\ g.info.hasAchievements /\ g.info.achievements # {}

\* userAch && (userAch.earned === true || userAch.earned === 1)
HubEarned(g, key) ==
    key \in DOMAIN g.achievements /\ IsTrueOrOne(g.achievements[key].earned)

\* schemaKeys.filter(key => !blacklist.includes(key)), or Object.keys(g.achievements)
HubCountedKeys(g) ==
    IF HasFullSchema(g)
    THEN SelectSeq(ObjectKeys([k \in g.info.achievements |-> TRUE]),
                   LAMBDA k : ~Includes(BlacklistOf(g.info), k))
    ELSE ObjectKeys(g.achievements)

HubTotalCount(g) == Len(HubCountedKeys(g))

\* earnedCount++ for each counted key whose entry is earned
HubEarnedCount(g) == Len(SelectSeq(HubCountedKeys(g), LAMBDA k : HubEarned(g, k)))

\* Variant without the canDeterminePerfect guard; C8 tells it from
\* HubCountsPerfect.
HubCountsPerfectUnguarded(g) ==
    HubTotalCount(g) > 0 /\ HubEarnedCount(g) = HubTotalCount(g)

\* canDeterminePerfect && totalCount > 0 && earnedCount === totalCount
HubCountsPerfect(g) ==
    HasFullSchema(g) /\ HubTotalCount(g) > 0 /\ HubEarnedCount(g) = HubTotalCount(g)

RECURSIVE HubLoop(_, _, _)
\* for (const g of data) { ... }
HubLoop(data, i, acc) ==
    IF i > Len(data) THEN acc
    ELSE HubLoop(data, i + 1,
            [acc EXCEPT !.achievements = @ + HubEarnedCount(data[i]),
                        !.totalAchievements = @ + HubTotalCount(data[i]),
                        !.perfectGames = @ + (IF HubCountsPerfect(data[i]) THEN 1 ELSE 0)])

NoPerson == [loaded |-> FALSE, achievements |-> 0, totalGames |-> 0,
             perfectGames |-> 0, totalAchievements |-> 0]

\* The person fields after loadGameData; fetchJSON gives null when the
\* response is not ok.
HubLoadGameData(fetchOk, data) ==
    IF ~fetchOk
    THEN [NoPerson EXCEPT !.loaded = TRUE]
    ELSE HubLoop(data, 1,
            [loaded |-> TRUE, achievements |-> 0, totalGames |-> Len(data),
             perfectGames |-> 0, totalAchievements |-> 0])

\* addUserToGrid: person.totalAchievements
\*   ? Math.round((person.achievements / person.totalAchievements) * 100) : 0
HubPercentage(achievements, totalAchievements) ==
    IF totalAchievements # 0 THEN MathRoundTimes100(achievements, totalAchievements) ELSE 0

\* ------------------------------------------- GameCompare.loadOwnGameData
\* The value loadOwnGameData resolves to: null, or the visitor's data.
\* (Its gameInfo field is read by nothing but the blacklist line and is
\* not kept.)
NullData == [isNull |-> TRUE, achievementsData |-> <<>>, blacklist |-> <<>>,
             username |-> ""]

\* The array conversion: entries with a truthy apiname are stored under
\* it (a later one overwrites an earlier one) as
\* { earned: ach.achieved === 1, earned_time: ach.unlocktime || 0 }
ConvertArray(arr) ==
    [k \in {arr[i].apiname : i \in 1..Len(arr)} \ {""} |->
        LET last == CHOOSE i \in 1..Len(arr) :
                        /\ arr[i].apiname = k
                        /\ \A j \in 1..Len(arr) : arr[j].apiname = k => j <= i
        IN  SaveEntry(IF arr[last].achieved = Num(1) THEN JsTrue ELSE JsFalse,
                      Undef, Undef, JsOr(arr[last].unlocktime, Num(0)), Undef, Undef)]

\* if (Array.isArray(achievementsData)) { ... achievementsData = converted; }
NormalizeSaveData(body) ==
    IF body.kind = "array" THEN ConvertArray(body.array) ELSE body.map

\* const result = { achievementsData, gameInfo, blacklist: gameInfo?.blacklist || [],
\*                  username: ownUsername }
\* where gameInfo stays null unless the game-info.json response is ok.
OwnGameData(ownUsername, achievementsData, infoResponse) ==
    [isNull |-> FALSE,
     achievementsData |-> achievementsData,
     blacklist |-> IF infoResponse.status = "ok"
                   THEN BlacklistOf(infoResponse.gameInfo) ELSE <<>>,
     username |-> ownUsername]

\* ----------------------------------------- GameCompare.compareAchievements
\* Variant that reads a missing visitor entry as earned; C4 tells it from
\* YouHave.
YouHaveUnlessLocked(ownAchievements, apiName) ==
    apiName \in DOMAIN ownAchievements => IsTrueOrOne(ownAchievements[apiName].earned)

\* const youHave = ownAch ? (ownAch.earned === true || ownAch.earned === 1) : false
YouHave(ownAchievements, apiName) ==
    apiName \in DOMAIN ownAchievements /\ IsTrueOrOne(ownAchievements[apiName].earned)

\* const theyHave = achievement.unlocked === true || achievement.unlocked === 1
TheyHave(achievement) == IsTrueOrOne(achievement.unlocked)

\* Variant that leaves the neither-has case unnamed; C1 tells it from
\* StatusOf.
StatusOfPartial(theyHave, youHave) ==
    IF theyHave /\ youHave THEN "both-unlocked"
    ELSE IF theyHave THEN "they-only"
    ELSE IF youHave THEN "you-only"
    ELSE "unknown"

\* Variant with the two one-sided statuses exchanged; C2 tells it from
\* StatusOf.
StatusOfExchanged(theyHave, youHave) ==
    IF theyHave /\ youHave THEN "both-unlocked"
    ELSE IF theyHave THEN "you-only"
    ELSE IF youHave THEN "they-only"
    ELSE "both-locked"

\* if (theyHave && youHave) ... else if (theyHave && !youHave) ...
\* else if (!theyHave && youHave) ... else status = 'both-locked'

StatusOf(theyHave, youHave) ==
    IF theyHave /\ youHave THEN "both-unlocked"
    ELSE IF theyHave /\ ~youHave THEN "they-only"
    ELSE IF ~theyHave /\ youHave THEN "you-only"
    ELSE "both-locked"

\* ownAch?.earned_time || ownAch?.unlock_time || ownAch?.unlocktime || 0
YourUnlockTime(ownAchievements, apiName) ==
    IF apiName \in DOMAIN ownAchievements
    THEN JsOr(ownAchievements[apiName].earned_time,
              JsOr(ownAchievements[apiName].unlock_time,
                   JsOr(ownAchievements[apiName].unlocktime, Num(0))))
    ELSE Num(0)

\* the object pushed onto comparison: { ...achievement, status, ... }
ComparisonRecord(achievement, ownAchievements) ==
    [apiname |-> achievement.apiname, unlocked |-> achievement.unlocked,
     unlocktime |-> achievement.unlocktime,
     status |-> StatusOf(TheyHave(achievement),
                         YouHave(ownAchievements, achievement.apiname)),
     yourUnlockTime |-> YourUnlockTime(ownAchievements, achievement.apiname),
     theirUnlockTime |-> JsOr(achievement.unlocktime, Num(0))]

\* Variant that skips nothing; C5 tells it from ComparedAchievements.
ComparedAchievementsAll(achievements, ownBlacklist) == achievements

\* if (ownBlacklist.includes(apiName)) continue;
ComparedAchievements(achievements, ownBlacklist) ==
    SelectSeq(achievements, LAMBDA a : ~Includes(ownBlacklist, a.apiname))

\* Variant without the null guard; C3 tells it from CompareAchievements.
CompareAchievementsOfAnything(theirGame, ownData) ==
    [hasData |-> TRUE,
     comparison |-> [i \in 1..Len(theirGame.achievements) |->
                       ComparisonRecord(theirGame.achievements[i], <<>>)]]

\* if (!ownData) return { hasData: false, comparison: [] }; for (let
\* achievement of theirGame.achievements) { ... comparison.push(...) }

CompareAchievements(theirGame, ownData) ==
    IF ownData.isNull THEN [hasData |-> FALSE, comparison |-> <<>>]
    ELSE LET kept == ComparedAchievements(theirGame.achievements, ownData.blacklist)
         IN  [hasData |-> TRUE,
              comparison |-> [i \in 1..Len(kept) |->
                                ComparisonRecord(kept[i], ownData.achievementsData)]]

\* ----------------------------------------- GameCompare.getComparisonStats
\* comparison.filter(a => a.status === status).length
CountStatus(comparison, status) ==
    Len(SelectSeq(comparison, LAMBDA a : a.status = status))

GetComparisonStats(comparison) ==
    [bothUnlocked |-> CountStatus(comparison, "both-unlocked"),
     youOnly |-> CountStatus(comparison, "you-only"),
     theyOnly |-> CountStatus(comparison, "they-only"),
     bothLocked |-> CountStatus(comparison, "both-locked"),
     yourTotal |-> CountStatus(comparison, "both-unlocked")
                   + CountStatus(comparison, "you-only"),
     theirTotal |-> CountStatus(comparison, "both-unlocked")
                    + CountStatus(comparison, "they-only"),
     total |-> Len(comparison)]

\* --------------------------------- GameCompare.renderComparisonAchievement
\* ach.yourUnlockTime > 0 ? `<div class="unlock-time-you">You: ...` : ''
ShowsYourUnlockTime(ach) == ach.yourUnlockTime.t = "num" /\ ach.yourUnlockTime.v > 0

\* ach.theirUnlockTime > 0 ? `<div class="unlock-time-them">Them: ...` : ''
ShowsTheirUnlockTime(ach) == ach.theirUnlockTime.t = "num" /\ ach.theirUnlockTime.v > 0

\* ------------------------------------------------------------ inputs
\* The save entries the general inputs draw from.
Entries == {EarnedTrue, EarnedOne, EarnedFalse, EarnedOther, LegacyAchieved}

\* keyed save mappings over any subset of Key
SaveMaps(entries) == UNION {[S -> entries] : S \in SUBSET Key}

\* exclusion lists: any sequence of keys, repeats and all orders included
Blacklists == UNION {[1..n -> Key] : n \in 0..MaxBlacklist}

GameInfos ==
    {NullInfo} \cup {Info(FALSE, {}, bl) : bl \in Blacklists}
               \cup {Info(TRUE, S, bl) : S \in SUBSET Key, bl \in Blacklists}

\* one entry of game-data.json, before its position gives it an appid
GameInput(achievements, info) == [achievements |-> achievements, info |-> info]

\* Ten-achievement scenario: schema K01..K10, K09 and K10 excluded, five
\* earned of which K10 is excluded.
ScenarioTen ==
    [achievements |-> [k \in {"K01", "K02", "K03", "K04", "K10"} |-> EarnedTrue],
     info |-> Info(TRUE, {KeyOrder[i] : i \in 1..10}, <<"K09", "K10">>)]

\* A save whose only unlock time is under earnedTime.
ScenarioCamelTime ==
    [achievements |-> [k \in {"K01"} |-> CamelTimed], info |-> NullInfo]

\* The games that lists of several games are made of.
CoarseGames ==
    {[achievements |-> a, info |-> i] :
        a \in UNION {[S -> {EarnedTrue, EarnedFalse}] : S \in SUBSET {"K01", "K02"}},
        i \in {NullInfo, Info(TRUE, {}, <<>>), Info(TRUE, {"K01", "K02"}, <<"K02">>)}}

WithAppIds(list) ==
    [i \in 1..Len(list) |->
        [appid |-> i, achievements |-> list[i].achievements, info |-> list[i].info]]

\* A hosted game-data.json that was fetched, and the fetch that was not ok.
\* malformed: the positions of the entries that carry no achievements object.
GameDataDoc(list) == [ok |-> TRUE, data |-> WithAppIds(list), malformed |-> {}]
NoGameDataDoc == [ok |-> FALSE, data |-> <<>>, malformed |-> {}]
MalformedDoc(list, positions) == [GameDataDoc(list) EXCEPT !.malformed = positions]

\* Games whose rosters the comparison runs over.
CompareGames ==
    {[achievements |-> a, info |-> i] :
        a \in UNION {[S -> {EarnedTrue, EarnedOne, EarnedOther}] :
                        S \in SUBSET {"K01", "K02"}},
        i \in {NullInfo, Info(FALSE, {}, <<"K01">>), Info(TRUE, Key, <<>>),
               Info(TRUE, Key, <<"K02">>)}}

\* Owner {A unlocked, B locked, C unlocked}
ScenarioABC ==
    [achievements |-> [k \in {"K01", "K03"} |-> EarnedTrue],
     info |-> Info(TRUE, Key, <<>>)]

\* Owner with unlock times out of roster order and one locked achievement
ScenarioDates ==
    [achievements |-> [k \in Key |-> CASE k = "K01" -> EarnedTrue
                                      [] k = "K02" -> EarnedLater
                                      [] OTHER -> EarnedFalse],
     info |-> NullInfo]

\* The visitor identities of the selection modal.
Users == {"alice", "bob"}
SwitchUsers == {"bob", "carol"}
NoUser == ""

\* Sequence-shaped save data: { apiname, achieved, unlocktime } objects; an
\* object without apiname reads "".
ArrayEntries ==
    {[apiname |-> "K01", achieved |-> Num(1), unlocktime |-> Num(7)],
     [apiname |-> "K02", achieved |-> Num(0), unlocktime |-> Num(0)],
     [apiname |-> "K01", achieved |-> JsTrue, unlocktime |-> Num(7)],
     [apiname |-> "", achieved |-> Num(1), unlocktime |-> Num(7)]}

\* What achResponse.json() gives: a keyed mapping, an array, or a throw.
SaveBodies ==
    {[kind |-> "invalid", map |-> <<>>, array |-> <<>>]}
    \cup {[kind |-> "map", map |-> m, array |-> <<>>] :
            m \in SaveMaps({EarnedTrue, EarnedFalse})
                  \cup {[k \in {"K01"} |-> EarnedOne],
                        [k \in {"K01", "K04"} |-> EarnedTrue],
                        [k \in {"K01", "K02"} |->
                            IF k = "K01" THEN LegacyAchieved ELSE EarnedOne]}}
    \cup {[kind |-> "array", map |-> <<>>, array |-> a] :
            a \in UNION {[1..n -> ArrayEntries] : n \in 0..2}}

\* The game-info.json outcome: not ok, a rejected fetch, or a document.
InfoResponses ==
    {[status |-> st, gameInfo |-> NullInfo] : st \in {"notok", "throws"}}
    \cup {[status |-> "ok", gameInfo |-> Info(FALSE, {}, bl)] : bl \in Blacklists}

FetchStatus == {"ok", "notok", "throws"}

\* One AppID folder of the owner's repository: how the achievements.json and
\* .db fetches end, what the ok response parses to (also the JSON null),
\* and the game-info.json outcome.
Folder(ach, db, body, info) == [ach |-> ach, db |-> db, body |-> body, info |-> info]

KeyedBody(map) == [kind |-> "map", map |-> map, array |-> <<>>]
ArrayBody(array) == [kind |-> "array", map |-> <<>>, array |-> array]
OtherBody(kind) == [kind |-> kind, map |-> <<>>, array |-> <<>>]
InfoNotOk == [status |-> "notok", gameInfo |-> NullInfo]

Folders ==
    {Folder("ok", "ok", KeyedBody([k \in {"K01", "K02"} |->
                                     IF k = "K01" THEN EarnedTrue ELSE EarnedFalse]),
            InfoNotOk),
     Folder("notok", "ok",
            ArrayBody(<<[apiname |-> "K01", achieved |-> Num(1), unlocktime |-> Num(7)],
                        [apiname |-> "", achieved |-> Num(1), unlocktime |-> Num(7)],
                        [apiname |-> "K02", achieved |-> JsTrue, unlocktime |-> Num(9)]>>),
            [status |-> "ok", gameInfo |-> Info(FALSE, {}, <<"K03">>)]),
     Folder("notok", "notok", OtherBody("none"), InfoNotOk),
     Folder("throws", "ok", OtherBody("none"), InfoNotOk),
     Folder("notok", "throws", OtherBody("none"), InfoNotOk),
     Folder("ok", "ok", OtherBody("invalid"), InfoNotOk),
     Folder("ok", "ok", OtherBody("null"), InfoNotOk)}
    \cup {Folder("ok", "ok", ArrayBody(a), [status |-> "throws", gameInfo |-> NullInfo]) :
            a \in UNION {[1..n -> ArrayEntries] : n \in 0..2}}

\* What each login hosts: anything for alice, little for the others.
PlainBodies ==
    {[kind |-> "map", map |-> m, array |-> <<>>] :
        m \in {[k \in {"K01"} |-> EarnedTrue], [k \in {"K02"} |-> EarnedTrue]}}

PlainInfos ==
    {[status |-> "notok", gameInfo |-> NullInfo],
     [status |-> "ok", gameInfo |-> Info(FALSE, {}, <<"K03">>)]}

HostedBodies(user) == IF user = "alice" THEN SaveBodies ELSE PlainBodies

HostedInfos(user) == IF user = "alice" THEN InfoResponses ELSE PlainInfos

\* ------------------------------------------------------------- state
VARIABLES
    page,            \* the page whose script runs: "profile" or "hub"
    gameDataJson,    \* the owner's hosted game-data.json
    gamesData,       \* GameLoader.gamesData, in insertion order
    summary,         \* the totals displayGames last rendered
    person,          \* the hub's person record after loadGameData
    storedUsername,  \* localStorage comparison_github_username
    comparisonCache, \* GameCompare.comparisonCache: cache key -> value
    currentGameData, \* window.currentGameData
    call,            \* the enableCompareMode call in progress and its locals
    lastFetch,       \* how the last load that went to the network ended
    percent,         \* a percentage computation: its arguments and results
    users,           \* the logins fetchAvailableUsers gives the selection modal
    pending,         \* loads still in flight whose handler is no longer the latest
    location,        \* window.location: the values of vs and of game in the query
    passportChecks,  \* how often checkPassport ran on this page
    loading          \* init's load: the AppID folders, the loop's position, the URLs fetched

vars == <<page, gameDataJson, gamesData, summary, person, storedUsername,
          comparisonCache, currentGameData, call, lastFetch, percent, users,
          pending, location, passportChecks, loading>>

loaderVars == <<gamesData, summary, person, loading>>
sessionVars == <<storedUsername, comparisonCache, currentGameData, call, lastFetch>>

NoGame == [appId |-> 0, achievements |-> <<>>]
NoComparison == [isNull |-> TRUE, hasData |-> FALSE, comparison |-> <<>>]
NoSession == [open |-> FALSE, appId |-> 0, game |-> NoGame, unlocked |-> 0,
              total |-> 0, sortMode |-> "default", compareMode |-> FALSE,
              comparisonData |-> NoComparison]
\* No AppID folders were listed: init falls back to game-data.json.
NoLoading == [folders |-> <<>>, next |-> 1, failed |-> FALSE, fetched |-> <<>>]
\* A URL without a query.
NoLocation == [vs |-> <<>>, game |-> 0]
\* body: what achResponse.json() gave, before an array is converted
NoBody == [kind |-> "none", map |-> <<>>, array |-> <<>>]
IdleCall == [pc |-> "idle", appId |-> 0, game |-> NoGame, user |-> NoUser,
             body |-> NoBody, achievementsData |-> <<>>]

NoPercent == [unlocked |-> 0, total |-> 0, calculated |-> FALSE, percentage |-> 0,
              hubShown |-> FALSE, perc |-> 0]

InitCommon ==
    /\ gamesData = <<>>
    /\ summary = NoSummary
    /\ person = NoPerson
    /\ comparisonCache = <<>>
    /\ currentGameData = NoSession
    /\ call = IdleCall
    /\ lastFetch = "none"
    /\ pending = <<>>
    /\ location = NoLocation
    /\ passportChecks = 0
    /\ loading = NoLoading

\* The hosted document: none, one game of any shape, or up to MaxGames
\* coarse games.
Init ==
    /\ percent = NoPercent
    /\ users = {}
    /\ page \in {"profile", "hub"}
    /\ \/ gameDataJson = NoGameDataDoc
       \/ \E a \in SaveMaps(Entries), i \in GameInfos :
             gameDataJson = GameDataDoc(<<GameInput(a, i)>>)
       \/ gameDataJson = GameDataDoc(<<ScenarioTen>>)
       \/ gameDataJson = GameDataDoc(<<ScenarioCamelTime>>)
       \/ \E n \in 0..MaxGames : \E l \in [1..n -> CoarseGames] :
             gameDataJson = GameDataDoc(l)
    /\ storedUsername = NoUser
    /\ InitCommon

InitCompare ==
    /\ percent = NoPercent
    /\ users = Users
    /\ page = "profile"
    /\ \E g \in CompareGames \cup {ScenarioABC} : gameDataJson = GameDataDoc(<<g>>)
    /\ storedUsername \in {NoUser, "alice"}
    /\ InitCommon

\* loadGamesFromData: one turn of its loop,
\* await processGameData(appId, gameData.achievements, gameData.info)
LoadGamesFromDataStep ==
    /\ page = "profile"
    /\ gameDataJson.ok
    /\ loading.folders = <<>>
    /\ ~loading.failed
    /\ ~summary.shown
    /\ Len(gamesData) < Len(gameDataJson.data)
    /\ IF Len(gamesData) + 1 \in gameDataJson.malformed
       THEN \* processGameData reads achievementsData.achievements of undefined:
            \* the TypeError leaves the loop and init's catch reports it
            /\ loading' = [loading EXCEPT !.failed = TRUE]
            /\ UNCHANGED gamesData
       ELSE /\ LET gameData == gameDataJson.data[Len(gamesData) + 1]
               IN  gamesData' = MapSet(gamesData, gameData.appid,
                       ProcessGameData(gameData.appid, gameData.achievements,
                                       gameData.info))
            /\ UNCHANGED loading
    /\ UNCHANGED <<passportChecks, location, pending, users, percent, page, gameDataJson, summary, person>>
    /\ UNCHANGED sessionVars

\* loadGamesFromAppIds: one turn of its loop, for the folder appIds[next].
\* Whatever is thrown in the turn is caught and the loop goes on.
LoadGamesFromAppIdsStep ==
    /\ page = "profile"
    /\ loading.folders # <<>>
    /\ loading.next <= Len(loading.folders)
    /\ LET appId == loading.next
           folder == loading.folders[appId]
           responseOk == folder.ach = "ok" \/ (folder.ach = "notok" /\ folder.db = "ok")
           parsed == responseOk /\ folder.body.kind # "invalid"
           gameInfo == IF folder.info.status = "ok" THEN folder.info.gameInfo ELSE NullInfo
           fetched == <<<<appId, "achievements.json">>>>
                      \o (IF folder.ach = "notok" THEN <<<<appId, "db">>>> ELSE <<>>)
                      \o (IF parsed THEN <<<<appId, "game-info.json">>>> ELSE <<>>)
       IN  /\ loading' = [loading EXCEPT !.next = @ + 1, !.fetched = @ \o fetched]
           /\ gamesData' =
                 IF parsed /\ folder.body.kind \in {"map", "array"}
                 THEN MapSet(gamesData, appId,
                             ProcessGameData(appId, NormalizeLoaded(folder.body), gameInfo))
                 ELSE gamesData
    /\ UNCHANGED <<passportChecks, location, pending, users, percent, page, gameDataJson, summary, person>>
    /\ UNCHANGED sessionVars

\* displayGames, once the loader has finished
DisplayGames ==
    /\ page = "profile"
    /\ \/ gameDataJson.ok /\ loading.folders = <<>>
          /\ Len(gamesData) = Len(gameDataJson.data)
       \/ loading.folders # <<>> /\ loading.next > Len(loading.folders)
    /\ summary' = DisplayGamesTotals(gamesData)
    /\ UNCHANGED <<passportChecks, location, pending, users, percent, page, gameDataJson, gamesData, person, loading>>
    /\ UNCHANGED sessionVars

\* the hub's loadGameData(person)
HubLoadGameDataStep ==
    /\ page = "hub"
    /\ ~person.loaded
    /\ person' = HubLoadGameData(gameDataJson.ok, gameDataJson.data)
    /\ UNCHANGED <<passportChecks, location, pending, users, percent, page, gameDataJson, gamesData, summary, loading>>
    /\ UNCHANGED sessionVars

\* showGameDetail(appId): a card of the rendered grid is opened
ShowGameDetail ==
    /\ page = "profile"
    /\ summary.shown
    /\ \E i \in 1..Len(gamesData) :
         /\ location' = [location EXCEPT !.game = gamesData[i].appId]
         /\ currentGameData' =
               [open |-> TRUE, appId |-> gamesData[i].appId, game |-> gamesData[i],
                unlocked |-> UnlockedCount(gamesData[i]),
                total |-> Len(gamesData[i].achievements),
                sortMode |-> "default",
                compareMode |-> FALSE, comparisonData |-> NoComparison]
    /\ UNCHANGED <<passportChecks, pending, users, percent, page, gameDataJson, storedUsername, comparisonCache, call, lastFetch>>
    /\ UNCHANGED loaderVars

\* what compareAchievements(game, ownData) returns, as comparisonData holds it
ComparisonOf(game, ownData) ==
    [isNull |-> FALSE,
     hasData |-> CompareAchievements(game, ownData).hasData,
     comparison |-> CompareAchievements(game, ownData).comparison]

\* The tail of enableCompareMode once loadOwnGameData has resolved:
\*   const comparisonData = compareAchievements(game, ownData);
\*   window.currentGameData.comparisonData = comparisonData;
FinishCompare(game, ownData) ==
    /\ currentGameData' =
          [currentGameData EXCEPT !.comparisonData = ComparisonOf(game, ownData)]
    /\ call' = IdleCall

\* A load that ends at the network: comparisonCache.set(cacheKey, value),
\* and the caller goes on.
FinishFetch(outcome, ownData) ==
    /\ lastFetch' = outcome
    /\ comparisonCache' =
          [k \in DOMAIN comparisonCache \cup {<<call.user, call.appId>>} |->
              IF k = <<call.user, call.appId>> THEN ownData ELSE comparisonCache[k]]
    /\ FinishCompare(call.game, ownData)

\* enableCompareMode from "window.currentGameData.compareMode = true" on:
\* loadOwnGameData answers at once without a stored username or from the
\* cache, and starts fetching otherwise.
StartLoad(appId, game, user) ==
    IF user = NoUser \/ <<user, appId>> \in DOMAIN comparisonCache
    THEN LET ownData == IF user = NoUser THEN NullData
                        ELSE comparisonCache[<<user, appId>>]
         IN  /\ currentGameData' =
                   [currentGameData EXCEPT !.compareMode = TRUE,
                                           !.comparisonData = ComparisonOf(game, ownData)]
             /\ call' = IdleCall
    ELSE /\ currentGameData' = [currentGameData EXCEPT !.compareMode = TRUE]
         /\ call' = [pc |-> "fetchAch", appId |-> appId, game |-> game,
                     user |-> user, body |-> NoBody, achievementsData |-> <<>>]

\* window.enableCompareMode(): the Compare button of the normal view
EnableCompareMode ==
    /\ currentGameData.open
    /\ ~currentGameData.compareMode
    /\ call.pc = "idle"
    /\ IF storedUsername # NoUser
       THEN StartLoad(currentGameData.appId, currentGameData.game, storedUsername)
       ELSE /\ call' = [IdleCall EXCEPT !.pc = "modal",
                                        !.appId = currentGameData.appId,
                                        !.game = currentGameData.game]
            /\ UNCHANGED currentGameData
    /\ UNCHANGED <<passportChecks, location, pending, users, percent, page, gameDataJson, storedUsername, comparisonCache, lastFetch>>
    /\ UNCHANGED loaderVars

\* selectComparisonUser: a user of the list is clicked
ModalSelect ==
    /\ call.pc = "modal"
    /\ \E username \in users :
         /\ storedUsername' = username
         /\ StartLoad(call.appId, call.game, username)
    /\ UNCHANGED <<passportChecks, location, pending, users, percent, page, gameDataJson, comparisonCache, lastFetch>>
    /\ UNCHANGED loaderVars

\* enableCompareMode going on after selectComparisonUser resolved null
ModalCancelProceeds ==
    /\ call.pc = "modal"
    /\ StartLoad(call.appId, call.game, storedUsername)
    /\ UNCHANGED <<passportChecks, location, pending, users, percent, page, gameDataJson, storedUsername, comparisonCache,
                   lastFetch>>
    /\ UNCHANGED loaderVars

\* selectComparisonUser resolves null: cancelled, or no users found
ModalCancel ==
    /\ call.pc = "modal"
    /\ call' = IdleCall
    /\ UNCHANGED <<passportChecks, location, pending, users, percent, page, gameDataJson, storedUsername, comparisonCache,
                   currentGameData, lastFetch>>
    /\ UNCHANGED loaderVars

\* loadOwnGameData: the achievements.json response arrives
FetchAchievementsJson ==
    /\ call.pc = "fetchAch"
    /\ \E status \in FetchStatus :
         CASE status = "ok" ->
                /\ call' = [call EXCEPT !.pc = "parse"]
                /\ UNCHANGED <<comparisonCache, currentGameData, lastFetch>>
           [] status = "notok" ->
                /\ call' = [call EXCEPT !.pc = "fetchDb"]
                /\ UNCHANGED <<comparisonCache, currentGameData, lastFetch>>
           [] status = "throws" -> FinishFetch("threw", NullData)
    /\ UNCHANGED <<passportChecks, location, pending, users, percent, page, gameDataJson, storedUsername>>
    /\ UNCHANGED loaderVars

\* loadOwnGameData: the .db response arrives
FetchDb ==
    /\ call.pc = "fetchDb"
    /\ \E status \in FetchStatus :
         CASE status = "ok" ->
                /\ call' = [call EXCEPT !.pc = "parse"]
                /\ UNCHANGED <<comparisonCache, currentGameData, lastFetch>>
           [] status = "notok" -> FinishFetch("not-found", NullData)
           [] status = "throws" -> FinishFetch("threw", NullData)
    /\ UNCHANGED <<passportChecks, location, pending, users, percent, page, gameDataJson, storedUsername>>
    /\ UNCHANGED loaderVars

\* loadOwnGameData: achResponse.json() settles, and an array is converted
ParseSaveData ==
    /\ call.pc = "parse"
    /\ \E body \in HostedBodies(call.user) :
         IF body.kind = "invalid"
         THEN FinishFetch("threw", NullData)
         ELSE /\ call' = [call EXCEPT !.pc = "fetchInfo",
                                      !.body = body,
                                      !.achievementsData = NormalizeSaveData(body)]
              /\ UNCHANGED <<comparisonCache, currentGameData, lastFetch>>
    /\ UNCHANGED <<passportChecks, location, pending, users, percent, page, gameDataJson, storedUsername>>
    /\ UNCHANGED loaderVars

\* loadOwnGameData: the game-info.json outcome arrives and the load resolves
FetchGameInfo ==
    /\ call.pc = "fetchInfo"
    /\ \E infoResponse \in HostedInfos(call.user) :
         FinishFetch("loaded",
                     OwnGameData(call.user, call.achievementsData, infoResponse))
    /\ UNCHANGED <<passportChecks, location, pending, users, percent, page, gameDataJson, storedUsername>>
    /\ UNCHANGED loaderVars

\* window.disableCompareMode(): the Normal View button
DisableCompareMode ==
    /\ currentGameData.open
    /\ currentGameData.compareMode
    /\ call.pc = "idle"
    /\ currentGameData' = [currentGameData EXCEPT !.compareMode = FALSE,
                                                  !.comparisonData = NoComparison]
    /\ UNCHANGED <<passportChecks, location, pending, users, percent, page, gameDataJson, storedUsername, comparisonCache, call, lastFetch>>
    /\ UNCHANGED loaderVars

\* setSortMode that sorts game.achievements itself
SetSortModeInPlace ==
    /\ currentGameData.open
    /\ ~currentGameData.compareMode
    /\ \E mode \in SortModes :
         /\ currentGameData' =
               [currentGameData EXCEPT
                   !.sortMode = mode,
                   !.game.achievements = SortedByTime(@, mode)]
         /\ gamesData' =
               [i \in 1..Len(gamesData) |->
                   IF gamesData[i].appId = currentGameData.appId
                   THEN [gamesData[i] EXCEPT !.achievements = SortedByTime(@, mode)]
                   ELSE gamesData[i]]
    /\ UNCHANGED <<passportChecks, location, pending, users, percent, page, gameDataJson,
                   storedUsername, comparisonCache, call, lastFetch, summary, person,
                   loading>>

\* window.setSortMode(mode): a sort button of the normal view
SetSortMode ==
    /\ currentGameData.open
    /\ ~currentGameData.compareMode
    /\ \E mode \in SortModes :
         currentGameData' = [currentGameData EXCEPT !.sortMode = mode]
    /\ UNCHANGED <<passportChecks, location, pending, users, percent, page, gameDataJson,
                   storedUsername, comparisonCache, call, lastFetch>>
    /\ UNCHANGED loaderVars

\* The positions of loadOwnGameData's awaits.
InFlight == {"fetchAch", "fetchDb", "parse", "fetchInfo"}

\* The handler in call stops being the newest one; its load stays in flight.
Superseded ==
    Append(pending, [user |-> call.user, appId |-> call.appId, game |-> call.game])

\* What a load for the user can resolve to.
LoadResults(user) ==
    {NullData} \cup
    {OwnGameData(user, NormalizeSaveData(body), infoResponse) :
        body \in {b \in HostedBodies(user) : b.kind # "invalid"},
        infoResponse \in HostedInfos(user)}

\* comparisonData = { hasData: false, loading: true }
LoadingComparison == [isNull |-> FALSE, hasData |-> FALSE, comparison |-> <<>>]

\* window.disableCompareMode() while a load is awaited: the handler of the
\* load goes on afterwards.
DisableCompareModeDuringLoad ==
    /\ currentGameData.open
    /\ currentGameData.compareMode
    /\ call.pc \in InFlight
    /\ currentGameData' = [currentGameData EXCEPT !.compareMode = FALSE,
                                                  !.comparisonData = NoComparison]
    /\ UNCHANGED <<passportChecks, location, pending, users, percent, page, gameDataJson, storedUsername, comparisonCache, call, lastFetch>>
    /\ UNCHANGED loaderVars

\* window.enableCompareMode() while an earlier load is awaited
EnableCompareModeDuringLoad ==
    /\ currentGameData.open
    /\ ~currentGameData.compareMode
    /\ call.pc \in InFlight
    /\ Len(pending) < MaxPending
    /\ pending' = Superseded
    /\ IF storedUsername # NoUser
       THEN StartLoad(currentGameData.appId, currentGameData.game, storedUsername)
       ELSE /\ call' = [IdleCall EXCEPT !.pc = "modal",
                                        !.appId = currentGameData.appId,
                                        !.game = currentGameData.game]
            /\ UNCHANGED currentGameData
    /\ UNCHANGED <<passportChecks, location, users, percent, page, gameDataJson, storedUsername, comparisonCache, lastFetch>>
    /\ UNCHANGED loaderVars

\* window.changeComparisonUser(): a button of the comparison view, which is
\* rendered once comparisonData is set; the selection modal opens.
ChangeComparisonUser ==
    /\ currentGameData.open
    /\ currentGameData.compareMode
    /\ ~currentGameData.comparisonData.isNull
    /\ \/ call.pc = "idle" /\ UNCHANGED pending
       \/ call.pc \in InFlight /\ Len(pending) < MaxPending /\ pending' = Superseded
    /\ call' = [IdleCall EXCEPT !.pc = "modalChange"]
    /\ UNCHANGED <<passportChecks, location, users, percent, page, gameDataJson, storedUsername, comparisonCache,
                   currentGameData, lastFetch>>
    /\ UNCHANGED loaderVars

\* changeComparisonUser after a user of the list is clicked:
\* setStoredUsername(username), comparisonCache.clear(), the loading
\* placeholder, and loadOwnGameData(appId) starts.
ModalChangeSelect ==
    /\ call.pc = "modalChange"
    /\ \E username \in users :
         /\ storedUsername' = username
         /\ call' = [pc |-> "fetchAch", appId |-> currentGameData.appId,
                     game |-> currentGameData.game, user |-> username,
                     body |-> NoBody, achievementsData |-> <<>>]
    /\ comparisonCache' = <<>>
    /\ currentGameData' = [currentGameData EXCEPT !.compareMode = TRUE,
                                                  !.comparisonData = LoadingComparison]
    /\ UNCHANGED <<passportChecks, location, pending, users, percent, page, gameDataJson, lastFetch>>
    /\ UNCHANGED loaderVars

\* changeComparisonUser when selectComparisonUser resolves null
ModalChangeCancel ==
    /\ call.pc = "modalChange"
    /\ call' = IdleCall
    /\ UNCHANGED <<passportChecks, location, pending, users, percent, page, gameDataJson, storedUsername, comparisonCache,
                   currentGameData, lastFetch>>
    /\ UNCHANGED loaderVars

\* A load whose handler is no longer the newest resolves: loadOwnGameData
\* sets the cache under the key it computed when it started, and its
\* handler writes window.currentGameData.comparisonData.
SupersededLoadResolves ==
    /\ \E i \in 1..Len(pending) : \E ownData \in LoadResults(pending[i].user) :
         /\ comparisonCache' =
               [k \in DOMAIN comparisonCache \cup {<<pending[i].user, pending[i].appId>>} |->
                   IF k = <<pending[i].user, pending[i].appId>> THEN ownData
                   ELSE comparisonCache[k]]
         /\ currentGameData' =
               [currentGameData EXCEPT
                   !.comparisonData = ComparisonOf(pending[i].game, ownData)]
         /\ pending' = SubSeq(pending, 1, i - 1) \o SubSeq(pending, i + 1, Len(pending))
         /\ \E outcome \in IF ownData = NullData THEN {"threw", "not-found"}
                            ELSE {"loaded"} :
               lastFetch' = outcome
    /\ UNCHANGED <<passportChecks, location, users, percent, page, gameDataJson, storedUsername, call>>
    /\ UNCHANGED loaderVars

\* The values a vs parameter of the query is drawn from.
PassportValues == {"", "bob", "carol"}

\* params.get('vs'): the first value, null (read "") without one
PassportUser(loc) == IF loc.vs = <<>> THEN "" ELSE loc.vs[1]

\* checkPassport that stores the username and leaves the URL as it is
CheckPassportKeepsParameter ==
    /\ page = "profile"
    /\ passportChecks < MaxChecks
    /\ passportChecks' = passportChecks + 1
    /\ IF PassportUser(location) # ""
       THEN storedUsername' = PassportUser(location)
       ELSE UNCHANGED storedUsername
    /\ UNCHANGED <<location, pending, users, percent, gameDataJson, page, comparisonCache,
                   currentGameData, call, lastFetch>>
    /\ UNCHANGED loaderVars

\* checkPassport(): setStoredUsername(passportUser), and the URL is replaced
\* by itself without its vs parameters
CheckPassport ==
    /\ page = "profile"
    /\ passportChecks < MaxChecks
    /\ passportChecks' = passportChecks + 1
    /\ IF PassportUser(location) # ""
       THEN /\ storedUsername' = PassportUser(location)
            /\ location' = [location EXCEPT !.vs = <<>>]
       ELSE UNCHANGED <<storedUsername, location>>
    /\ UNCHANGED <<pending, users, percent, gameDataJson, page, comparisonCache,
                   currentGameData, call, lastFetch>>
    /\ UNCHANGED loaderVars

\* The hub's card is clicked: the profile page opens in a new tab under
\* `?vs=${visitor}` when the hub has a stored visitor; the modelled page
\* becomes that tab, whose origin has a storage of its own.
HubCardMouseDown ==
    /\ page = "hub"
    /\ page' = "profile"
    /\ location' = [vs |-> IF storedUsername # NoUser THEN <<storedUsername>> ELSE <<>>,
                    game |-> 0]
    /\ passportChecks' = 0
    /\ storedUsername' \in {NoUser} \cup Users
    /\ UNCHANGED <<pending, users, percent, gameDataJson, comparisonCache,
                   currentGameData, call, lastFetch>>
    /\ UNCHANGED loaderVars

\* calculatePercentage(unlocked, total) is called
CalculatePercentageCall ==
    /\ ~percent.calculated
    /\ percent' = [percent EXCEPT
                      !.calculated = TRUE,
                      !.percentage = CalculatePercentage(percent.unlocked, percent.total)]
    /\ UNCHANGED <<passportChecks, location, pending, users, page, gameDataJson>>
    /\ UNCHANGED loaderVars
    /\ UNCHANGED sessionVars

\* addUserToGrid computes perc for the card
HubPercentageCall ==
    /\ ~percent.hubShown
    /\ percent' = [percent EXCEPT
                      !.hubShown = TRUE,
                      !.perc = HubPercentage(percent.unlocked, percent.total)]
    /\ UNCHANGED <<passportChecks, location, pending, users, page, gameDataJson>>
    /\ UNCHANGED loaderVars
    /\ UNCHANGED sessionVars

NextLoader == LoadGamesFromDataStep \/ DisplayGames

NextSession ==
    \/ ShowGameDetail
    \/ EnableCompareMode
    \/ ModalSelect
    \/ ModalCancel
    \/ FetchAchievementsJson
    \/ FetchDb
    \/ ParseSaveData
    \/ FetchGameInfo
    \/ DisableCompareMode

Next == NextLoader \/ HubLoadGameDataStep

NextCompare == NextLoader \/ NextSession

\* The owner's data pipeline: the profile page's loader and summary, and
\* the hub's aggregation, over the same hosted game-data.json.
Spec == Init /\ [][Next]_vars

\* The percentage computations over counts up to MaxCount.
InitPercent ==
    /\ \E u \in 0..MaxCount, t \in 0..MaxCount :
          percent = [NoPercent EXCEPT !.unlocked = u, !.total = t]
    /\ users = {}
    /\ page = "profile"
    /\ gameDataJson = NoGameDataDoc
    /\ storedUsername = NoUser
    /\ InitCommon

NextPercent == CalculatePercentageCall \/ HubPercentageCall

SpecPercent == InitPercent /\ [][NextPercent]_vars

\* The profile page with a visitor comparing themselves to the owner.
SpecCompare == InitCompare /\ [][NextCompare]_vars

\* The profile page after checkPassport ran, with a visitor who also uses
\* the controls while loads are awaited and changes the comparison user.
InitSwitch ==
    /\ percent = NoPercent
    /\ users = SwitchUsers
    /\ page = "profile"
    /\ gameDataJson = GameDataDoc(<<ScenarioABC>>)
    /\ storedUsername \in {NoUser} \cup SwitchUsers
    /\ InitCommon

NextSwitch ==
    \/ NextCompare
    \/ DisableCompareModeDuringLoad
    \/ EnableCompareModeDuringLoad
    \/ ChangeComparisonUser
    \/ ModalChangeSelect
    \/ ModalChangeCancel
    \/ SupersededLoadResolves

SpecSwitch == InitSwitch /\ [][NextSwitch]_vars

\* The same visitor on a profile of two games, with one login to choose.
InitGames ==
    /\ percent = NoPercent
    /\ users = {"bob"}
    /\ page = "profile"
    /\ gameDataJson = GameDataDoc(<<ScenarioABC, ScenarioDates>>)
    /\ storedUsername \in {NoUser, "bob"}
    /\ InitCommon

SpecGames == InitGames /\ [][NextSwitch]_vars

\* init's load alone: up to MaxGames AppID folders, or a game-data.json of
\* up to MaxGames entries of which some carry no achievements object.
LoadedGames ==
    {GameInput([k \in {"K01"} |-> EarnedTrue], NullInfo),
     GameInput([k \in {"K01", "K02"} |-> EarnedFalse], Info(TRUE, Key, <<"K03">>))}

InitLoad ==
    /\ percent = NoPercent
    /\ users = {}
    /\ page = "profile"
    /\ storedUsername = NoUser
    /\ gamesData = <<>>
    /\ summary = NoSummary
    /\ person = NoPerson
    /\ comparisonCache = <<>>
    /\ currentGameData = NoSession
    /\ call = IdleCall
    /\ lastFetch = "none"
    /\ pending = <<>>
    /\ location = NoLocation
    /\ passportChecks = 0
    /\ \E n \in 1..MaxGames :
          \/ /\ \E folders \in [1..n -> Folders] :
                   loading = [NoLoading EXCEPT !.folders = folders]
             /\ gameDataJson = NoGameDataDoc
          \/ /\ loading = NoLoading
             /\ \E list \in [1..n -> LoadedGames], positions \in SUBSET (1..n) :
                   gameDataJson = MalformedDoc(list, positions)

NextLoad == LoadGamesFromAppIdsStep \/ LoadGamesFromDataStep \/ DisplayGames

SpecLoad == InitLoad /\ [][NextLoad]_vars

\* The profile page with a visitor who compares and sorts the detail view.
InitSort ==
    /\ percent = NoPercent
    /\ users = {"bob"}
    /\ page = "profile"
    /\ gameDataJson \in {GameDataDoc(<<ScenarioDates>>),
                         GameDataDoc(<<ScenarioABC, ScenarioDates>>)}
    /\ storedUsername \in {NoUser, "bob"}
    /\ InitCommon

NextSort == NextCompare \/ SetSortMode

SpecSort == InitSort /\ [][NextSort]_vars

\* A page is opened under a query with up to MaxVs vs parameters, or the
\* hub is, and checkPassport runs.
InitPassport ==
    /\ percent = NoPercent
    /\ users = {}
    /\ page \in {"profile", "hub"}
    /\ gameDataJson = NoGameDataDoc
    /\ storedUsername \in {NoUser} \cup Users
    /\ \E n \in 0..MaxVs : \E vs \in [1..n -> PassportValues] : \E game \in {0, 1} :
          location = [vs |-> vs, game |-> game]
    /\ passportChecks = 0
    /\ gamesData = <<>>
    /\ summary = NoSummary
    /\ person = NoPerson
    /\ comparisonCache = <<>>
    /\ currentGameData = NoSession
    /\ call = IdleCall
    /\ lastFetch = "none"
    /\ pending = <<>>
    /\ loading = NoLoading

NextPassport == CheckPassport \/ HubCardMouseDown

SpecPassport == InitPassport /\ [][NextPassport]_vars

\* =================================================================
\* Properties
\* =================================================================
Statuses == {"both-unlocked", "you-only", "they-only", "both-locked"}

\* the elements of an array, as a set
Elems(arr) == {arr[i] : i \in 1..Len(arr)}

\* the comparison now held by the session, and what it was computed from
Compared == ~currentGameData.comparisonData.isNull
Records == currentGameData.comparisonData.comparison
Roster == currentGameData.game.achievements
CacheKey == <<storedUsername, currentGameData.appId>>
VisitorKnown == CacheKey \in DOMAIN comparisonCache
VisitorData == comparisonCache[CacheKey]
ComparedWithData == Compared /\ currentGameData.comparisonData.hasData /\ VisitorKnown

\* the owner's achievement of the roster that a record stands for
OwnerAchievement(apiname) == CHOOSE a \in Elems(Roster) : a.apiname = apiname

OwnerHas(apiname) == OwnerAchievement(apiname).unlocked \in {JsTrue, Num(1)}

VisitorHas(apiname) ==
    /\ apiname \in DOMAIN VisitorData.achievementsData
    /\ VisitorData.achievementsData[apiname].earned \in {JsTrue, Num(1)}

\* C1: every record of a comparison carries one of the four statuses, and
\* the four status counts of getComparisonStats add up to total, which is
\* the number of records.
C1_StatusPartition ==
    Compared =>
        LET stats == GetComparisonStats(Records)
        IN  /\ \A i \in 1..Len(Records) : Records[i].status \in Statuses
            /\ stats.bothUnlocked + stats.youOnly + stats.theyOnly + stats.bothLocked
                  = stats.total
            /\ stats.total = Len(Records)

C1_Witness ==
    /\ ComparedWithData
    /\ Len(Records) >= 2
    /\ \E i, j \in 1..Len(Records) : Records[i].status # Records[j].status

\* C2: a record's status follows the owner's unlocked flag and the
\* visitor's earned flag: both -> both-unlocked, owner only -> they-only,
\* visitor only -> you-only, neither -> both-locked.
C2_StatusDerivation ==
    ComparedWithData =>
        \A i \in 1..Len(Records) :
            LET k == Records[i].apiname
            IN  /\ (OwnerHas(k) /\ VisitorHas(k)) => Records[i].status = "both-unlocked"
                /\ (OwnerHas(k) /\ ~VisitorHas(k)) => Records[i].status = "they-only"
                /\ (~OwnerHas(k) /\ VisitorHas(k)) => Records[i].status = "you-only"
                /\ (~OwnerHas(k) /\ ~VisitorHas(k)) => Records[i].status = "both-locked"

C2_Witness ==
    /\ ComparedWithData
    /\ \E i \in 1..Len(Records) : Records[i].status = "they-only"
    /\ \E i \in 1..Len(Records) : Records[i].status = "you-only"

\* C3: a load that ends with both files not ok, or with a throw, resolves
\* to null, and the comparison made of it has hasData = false and no
\* record, whatever the size of the owner's roster.
C3_NoVisitorData ==
    (Compared /\ VisitorKnown /\ lastFetch \in {"not-found", "threw"}) =>
        /\ VisitorData = NullData
        /\ currentGameData.comparisonData.hasData = FALSE
        /\ Records = <<>>

C3_Witness ==
    /\ Compared
    /\ VisitorKnown
    /\ lastFetch = "not-found"
    /\ Len(Roster) >= 2

\* C4: with an empty visitor exclusion list, total is the size of the
\* owner's roster, theirTotal the number of owner-unlocked achievements and
\* yourTotal the number of roster keys the visitor has earned, a key
\* without a visitor entry counting as not earned; owner {A unlocked,
\* B locked, C unlocked} against visitor {A earned} gives A both-unlocked,
\* B both-locked, C they-only, theirTotal 2, yourTotal 1, total 3.
C4_ScenarioState ==
    /\ gameDataJson = GameDataDoc(<<ScenarioABC>>)
    /\ ComparedWithData
    /\ VisitorData.blacklist = <<>>
    /\ VisitorData.achievementsData = [k \in {"K01"} |-> EarnedTrue]

C4_AbsentMeansNotEarned ==
    /\ (ComparedWithData /\ VisitorData.blacklist = <<>>) =>
          LET stats == GetComparisonStats(Records)
          IN  /\ stats.total = Len(Roster)
              /\ stats.theirTotal =
                    Cardinality({i \in 1..Len(Roster) : Roster[i].unlocked \in {JsTrue, Num(1)}})
              /\ stats.yourTotal =
                    Cardinality({i \in 1..Len(Roster) : VisitorHas(Roster[i].apiname)})
              /\ \A i \in 1..Len(Records) :
                    Records[i].apiname \notin DOMAIN VisitorData.achievementsData
                        => Records[i].status \in {"they-only", "both-locked"}
    /\ C4_ScenarioState =>
          /\ [i \in 1..Len(Records) |-> <<Records[i].apiname, Records[i].status>>]
                = << <<"K01", "both-unlocked">>, <<"K02", "both-locked">>,
                     <<"K03", "they-only">> >>
          /\ GetComparisonStats(Records).theirTotal = 2
          /\ GetComparisonStats(Records).yourTotal = 1
          /\ GetComparisonStats(Records).total = 3

C4_Witness == C4_ScenarioState

\* C5: the records are the achievements of the owner's roster whose key is
\* not in the visitor's exclusion list, each once and in roster order; a
\* key found only in the visitor's save gives no record.
C5_RecordsAreFilteredRoster ==
    ComparedWithData =>
        /\ \A i \in 1..Len(Records) :
              /\ \E j \in 1..Len(Roster) : Roster[j].apiname = Records[i].apiname
              /\ ~Includes(VisitorData.blacklist, Records[i].apiname)
        /\ \A j \in 1..Len(Roster) :
              ~Includes(VisitorData.blacklist, Roster[j].apiname) =>
                  Cardinality({i \in 1..Len(Records) :
                                  Records[i].apiname = Roster[j].apiname}) = 1
        /\ \A i1, i2 \in 1..Len(Records) :
              i1 < i2 =>
                  \E j1, j2 \in 1..Len(Roster) :
                      /\ j1 < j2
                      /\ Roster[j1].apiname = Records[i1].apiname
                      /\ Roster[j2].apiname = Records[i2].apiname

C5_Witness ==
    /\ ComparedWithData
    /\ Len(Records) >= 2
    /\ Len(Records) < Len(Roster)
    /\ \E k \in DOMAIN VisitorData.achievementsData :
          \A j \in 1..Len(Roster) : Roster[j].apiname # k

\* C6: reconciliation never removes an achievement of the owner's roster
\* from the comparison because of the visitor's exclusion list: every
\* achievement of the owner's roster has its record.
C6_OwnerRosterKeptWhole ==
    ComparedWithData =>
        \A j \in 1..Len(Roster) :
            \E i \in 1..Len(Records) : Records[i].apiname = Roster[j].apiname

\* the hosted games and what each was built with
HostedGames == gameDataJson.data
SchemaComplete(g) == g.info.present /\ g.info.hasAchievements /\ g.info.achievements # {}
Excluded(g) == Elems(BlacklistOf(g.info))

\* the keys a roster is drawn from, less the excluded ones
ListedKeys(g) ==
    (IF g.info.present /\ g.info.hasAchievements
     THEN g.info.achievements ELSE DOMAIN g.achievements) \ Excluded(g)

\* a save entry that any of the three earned fields marks earned
SaveMarksEarned(g, k) ==
    /\ k \in DOMAIN g.achievements
    /\ \/ Truthy(g.achievements[k].earned)
       \/ Truthy(g.achievements[k].unlocked)
       \/ Truthy(g.achievements[k].achieved)

RECURSIVE SumOf(_)
SumOf(numbers) ==
    IF numbers = <<>> THEN 0 ELSE Head(numbers) + SumOf(Tail(numbers))

\* C7: no completion aggregation counts a game built without a non-empty
\* schema as perfect: the perfect-game count of the summary, and of the
\* hub, is at most the number of games that have one.
C7_NoPerfectWithoutSchema ==
    /\ summary.shown =>
          summary.perfectGames
             <= Cardinality({i \in 1..Len(HostedGames) : SchemaComplete(HostedGames[i])})
    /\ (person.loaded /\ gameDataJson.ok) =>
          person.perfectGames
             <= Cardinality({i \in 1..Len(HostedGames) : SchemaComplete(HostedGames[i])})

\* a game of the hub's data that is perfect: a non-empty schema, at least
\* one non-excluded schema key, each with a save entry earned true or 1
HubPerfect(g) ==
    /\ SchemaComplete(g)
    /\ g.info.achievements \ Excluded(g) # {}
    /\ \A k \in g.info.achievements \ Excluded(g) :
          /\ k \in DOMAIN g.achievements
          /\ g.achievements[k].earned \in {JsTrue, Num(1)}

\* C8: the hub counts a game as perfect exactly when it has a non-empty
\* schema, at least one non-excluded schema key, and a save entry earned
\* true or 1 for each of them; perfectGames never exceeds totalGames.
C8_HubPerfectGames ==
    person.loaded =>
        /\ person.perfectGames <= person.totalGames
        /\ gameDataJson.ok =>
              /\ person.totalGames = Len(HostedGames)
              /\ person.perfectGames =
                    Cardinality({i \in 1..Len(HostedGames) : HubPerfect(HostedGames[i])})
        /\ ~gameDataJson.ok => person.perfectGames = 0

C8_Witness ==
    /\ person.loaded
    /\ person.totalGames = 2
    /\ person.perfectGames = 1
    /\ \E i \in 1..Len(HostedGames) :
          /\ ~SchemaComplete(HostedGames[i])
          /\ HostedGames[i].achievements # <<>>
          /\ \A k \in DOMAIN HostedGames[i].achievements :
                HostedGames[i].achievements[k].earned = JsTrue

C9_ScenarioDoc == gameDataJson = GameDataDoc(<<ScenarioTen>>)

\* C9: a roster holds no achievement whose key is excluded, and the total
\* and unlocked counts made from rosters count non-excluded achievements
\* only; in the ten-achievement scenario the roster has 8 achievements of
\* which 4 are unlocked, and the hub computes 8 and 4 too.
C9_ExclusionBeforeCounting ==
    /\ \A i \in 1..Len(gamesData) :
          /\ \A j \in 1..Len(gamesData[i].achievements) :
                gamesData[i].achievements[j].apiname \notin Excluded(HostedGames[i])
          /\ Len(gamesData[i].achievements) = Cardinality(ListedKeys(HostedGames[i]))
    /\ summary.shown =>
          /\ summary.totalAchievements =
                SumOf([i \in 1..Len(HostedGames) |->
                          Cardinality(ListedKeys(HostedGames[i]))])
          /\ summary.totalUnlocked =
                SumOf([i \in 1..Len(HostedGames) |->
                          Cardinality({k \in ListedKeys(HostedGames[i]) :
                                          SaveMarksEarned(HostedGames[i], k)})])
    /\ (C9_ScenarioDoc /\ summary.shown) =>
          /\ Len(gamesData[1].achievements) = 8
          /\ summary.totalAchievements = 8
          /\ summary.totalUnlocked = 4
    /\ (C9_ScenarioDoc /\ person.loaded) =>
          /\ person.totalAchievements = 8
          /\ person.achievements = 4

C9_Witness == C9_ScenarioDoc /\ summary.shown

\* C10: with a non-empty schema the roster has exactly one achievement per
\* non-excluded schema key, and a schema key without a save entry is in it
\* locked, with unlock time 0.
C10_RosterFromSchema ==
    \A i \in 1..Len(gamesData) :
        SchemaComplete(HostedGames[i]) =>
            LET roster == gamesData[i].achievements
                wanted == HostedGames[i].info.achievements \ Excluded(HostedGames[i])
            IN  /\ {roster[j].apiname : j \in 1..Len(roster)} = wanted
                /\ Len(roster) = Cardinality(wanted)
                /\ \A j \in 1..Len(roster) :
                      roster[j].apiname \notin DOMAIN HostedGames[i].achievements =>
                          /\ roster[j].unlocked = JsFalse
                          /\ roster[j].unlocktime = Num(0)

C10_Witness ==
    \E i \in 1..Len(gamesData) :
        /\ SchemaComplete(HostedGames[i])
        /\ Excluded(HostedGames[i]) # {}
        /\ \E j \in 1..Len(gamesData[i].achievements) :
              gamesData[i].achievements[j].apiname \notin DOMAIN HostedGames[i].achievements
        /\ \E j \in 1..Len(gamesData[i].achievements) :
              Truthy(gamesData[i].achievements[j].unlocked)

\* C11: without a schema, or with a schema of zero keys, the roster is made
\* of every non-excluded key of the save mapping, and the hub's total for
\* the game is the number of those keys.
C11_RosterFromSaveWithoutSchema ==
    /\ \A i \in 1..Len(gamesData) :
          ~SchemaComplete(HostedGames[i]) =>
              LET roster == gamesData[i].achievements
                  wanted == DOMAIN HostedGames[i].achievements \ Excluded(HostedGames[i])
              IN  /\ {roster[j].apiname : j \in 1..Len(roster)} = wanted
                  /\ Len(roster) = Cardinality(wanted)
    /\ (person.loaded /\ gameDataJson.ok /\ Len(HostedGames) = 1
            /\ ~SchemaComplete(HostedGames[1])) =>
          person.totalAchievements =
              Cardinality(DOMAIN HostedGames[1].achievements \ Excluded(HostedGames[1]))

\* C12: whatever field names a save entry uses, its normalized state has a
\* boolean unlocked value and a non-negative integer unlock time, in the
\* owner's roster and on the visitor's side alike: an entry
\* {achieved: 1, unlocktime: n} counts as earned exactly as
\* {earned: true, earned_time: n} does.
C12_NormalizedState ==
    /\ \A i \in 1..Len(gamesData) :
          \A j \in 1..Len(gamesData[i].achievements) :
              LET a == gamesData[i].achievements[j]
              IN  /\ a.unlocked \in {JsTrue, JsFalse}
                  /\ a.unlocktime.t = "num"
                  /\ a.unlocktime.v >= 0
    /\ ComparedWithData =>
          \A i \in 1..Len(Records) :
              LET k == Records[i].apiname
              IN  (/\ k \in DOMAIN VisitorData.achievementsData
                   /\ VisitorData.achievementsData[k] = LegacyAchieved)
                      => Records[i].status \in {"both-unlocked", "you-only"}

\* the earned state the field priority gives: the first field present
\* among earned, unlocked, achieved decides, and only true and 1 mean earned
EarnedByPriority(entry) ==
    LET first == IF entry.earned # Undef THEN entry.earned
                 ELSE IF entry.unlocked # Undef THEN entry.unlocked
                 ELSE entry.achieved
    IN  first \in {JsTrue, Num(1)}

C13_KeyedEntries ==
    \A i \in 1..Len(gamesData) :
        \A j \in 1..Len(gamesData[i].achievements) :
            LET a == gamesData[i].achievements[j]
            IN  a.apiname \in DOMAIN HostedGames[i].achievements =>
                    (Truthy(a.unlocked)
                        <=> EarnedByPriority(HostedGames[i].achievements[a.apiname]))

C13_SequenceEntries ==
    (call.pc = "fetchInfo" /\ call.body.kind = "array") =>
        \A i \in 1..Len(call.body.array) :
            LET ach == call.body.array[i]
            IN  (/\ ach.apiname # ""
                 /\ \A j \in 1..Len(call.body.array) :
                       call.body.array[j].apiname = ach.apiname => j <= i)
                    => (call.achievementsData[ach.apiname].earned = JsTrue
                            <=> ach.achieved \in {JsTrue, Num(1)})

\* C13: a save entry is earned when the first field present among earned,
\* unlocked, achieved is true or 1, and not earned for a missing field or
\* any other value; so it is for the entries of a keyed mapping in
\* processGameData and for the entries of a sequence in the array
\* conversion, where achieved: true and achieved: 1 give the same result.
C13_EarnedState == C13_KeyedEntries /\ C13_SequenceEntries

\* the unlock time the field precedence gives: the first non-falsy value
\* among earned_time, earnedTime, unlock_time, unlocktime, and 0 otherwise
TimeByPrecedence(entry) ==
    IF Truthy(entry.earned_time) THEN entry.earned_time
    ELSE IF "earnedTime" \in DOMAIN entry /\ Truthy(entry.earnedTime) THEN entry.earnedTime
    ELSE IF Truthy(entry.unlock_time) THEN entry.unlock_time
    ELSE IF Truthy(entry.unlocktime) THEN entry.unlocktime
    ELSE Num(0)

\* C14: the unlock time of a save entry is its first non-falsy value among
\* earned_time / earnedTime, unlock_time, unlocktime, and 0 without one, on
\* the owner's side (the roster) and on the visitor's (yourUnlockTime).
C14_UnlockTimePrecedence ==
    /\ \A i \in 1..Len(gamesData) :
          \A j \in 1..Len(gamesData[i].achievements) :
              LET a == gamesData[i].achievements[j]
              IN  a.unlocktime =
                     IF a.apiname \in DOMAIN HostedGames[i].achievements
                     THEN TimeByPrecedence(HostedGames[i].achievements[a.apiname])
                     ELSE Num(0)
    /\ ComparedWithData =>
          \A i \in 1..Len(Records) :
              Records[i].yourUnlockTime =
                 IF Records[i].apiname \in DOMAIN VisitorData.achievementsData
                 THEN TimeByPrecedence(VisitorData.achievementsData[Records[i].apiname])
                 ELSE Num(0)

\* C15: an achievement that is not unlocked has no unlock time: a record
\* whose visitor side is not earned has yourUnlockTime 0 and shows no
\* visitor date, and a record whose owner side is not unlocked has
\* theirUnlockTime 0 and shows no owner date.
C15_NoTimeWithoutUnlock ==
    ComparedWithData =>
        \A i \in 1..Len(Records) :
            /\ Records[i].status \in {"they-only", "both-locked"} =>
                  /\ Records[i].yourUnlockTime = Num(0)
                  /\ ~ShowsYourUnlockTime(Records[i])
            /\ Records[i].status \in {"you-only", "both-locked"} =>
                  /\ Records[i].theirUnlockTime = Num(0)
                  /\ ~ShowsTheirUnlockTime(Records[i])

\* round(100 * u / t) for t > 0, a half going up
RoundedPercent(u, t) == (200 * u + t) \div (2 * t)

\* C16: calculatePercentage(u, t) is 0 when t = 0 and round(100*u/t) when
\* t > 0, and so is the hub's per-user percentage; for 0 <= u <= t the
\* result is an integer in 0..100.
C16_PercentageIsRounded ==
    LET expected == IF percent.total = 0 THEN 0
                    ELSE RoundedPercent(percent.unlocked, percent.total)
    IN  /\ percent.calculated =>
              /\ percent.percentage = expected
              /\ percent.unlocked <= percent.total => percent.percentage \in 0..100
        /\ percent.hubShown =>
              /\ percent.perc = expected
              /\ percent.unlocked <= percent.total => percent.perc \in 0..100

\* the keys the hub counts for a game, and those of them it counts earned
HubGameKeys(g) ==
    IF SchemaComplete(g) THEN g.info.achievements \ Excluded(g) ELSE DOMAIN g.achievements
HubGameEarned(g) ==
    {k \in HubGameKeys(g) :
        k \in DOMAIN g.achievements /\ g.achievements[k].earned \in {JsTrue, Num(1)}}

\* pct is 100 * part / whole rounded to an integer, or 0 for an empty whole
IsPercentOf(pct, part, whole) ==
    IF whole = 0 THEN pct = 0
    ELSE /\ 2 * (100 * part - pct * whole) <= whole
         /\ 2 * (pct * whole - 100 * part) <= whole

\* C17: the summary's totals are the sums of the per-game counts, the
\* overall percentage is computed from those two sums, and
\* totalUnlocked <= totalAchievements; the hub's totals are sums of its
\* per-game counts too.
C17_TotalsAreSums ==
    /\ summary.shown =>
          /\ summary.totalAchievements =
                SumOf([i \in 1..Len(gamesData) |-> Len(gamesData[i].achievements)])
          /\ summary.totalUnlocked =
                SumOf([i \in 1..Len(gamesData) |->
                          Cardinality({j \in 1..Len(gamesData[i].achievements) :
                                          Truthy(gamesData[i].achievements[j].unlocked)})])
          /\ IsPercentOf(summary.overallPercentage,
                         summary.totalUnlocked, summary.totalAchievements)
          /\ summary.totalUnlocked <= summary.totalAchievements
    /\ (person.loaded /\ gameDataJson.ok) =>
          /\ person.totalAchievements =
                SumOf([i \in 1..Len(HostedGames) |-> Cardinality(HubGameKeys(HostedGames[i]))])
          /\ person.achievements =
                SumOf([i \in 1..Len(HostedGames) |-> Cardinality(HubGameEarned(HostedGames[i]))])
          /\ person.achievements <= person.totalAchievements

C17_Witness ==
    /\ summary.shown
    /\ Len(gamesData) = 2
    /\ Len(gamesData[1].achievements) = 1
    /\ Len(gamesData[2].achievements) = 2
    /\ summary.totalUnlocked = 1
    /\ Truthy(gamesData[1].achievements[1].unlocked)

\* the exclusion lists that name the same keys as the game's own, in any
\* order and with any repeats
SameExclusions(g) == {bl \in Blacklists : Elems(bl) = Excluded(g)}

WithBlacklist(g, bl) == [g EXCEPT !.info.blacklist = bl]

\* C18: exclusion filtering is order-independent and idempotent: a roster
\* (and the hub's counts) built with the same excluded keys in another
\* order or with repeats is the same, and filtering the roster again with
\* the list changes nothing.
C18_ExclusionIsSetLike ==
    /\ \A i \in 1..Len(gamesData) :
          LET g == HostedGames[i]
              rosterKeys == [j \in 1..Len(gamesData[i].achievements) |->
                                gamesData[i].achievements[j].apiname]
          IN  /\ g.info.present =>
                    \A bl \in SameExclusions(g) :
                        ProcessGameData(g.appid, g.achievements, WithBlacklist(g, bl).info)
                            = gamesData[i]
              /\ SkipBlacklisted(rosterKeys, BlacklistOf(g.info)) = rosterKeys
    /\ (person.loaded /\ gameDataJson.ok /\ Len(HostedGames) = 1
            /\ HostedGames[1].info.present) =>
          \A bl \in SameExclusions(HostedGames[1]) :
              HubLoadGameData(TRUE, <<WithBlacklist(HostedGames[1], bl)>>) = person

C18_Witness ==
    /\ Len(gamesData) = 1
    /\ Len(HostedGames[1].info.blacklist) = 2
    /\ Cardinality(Excluded(HostedGames[1])) = 2
    /\ Excluded(HostedGames[1]) \subseteq HostedGames[1].info.achievements
    /\ Len(gamesData[1].achievements) = 1

\* C19: after any sequence of operations the comparison cache holds no entry
\* created under a visitor identity other than the stored one.
C19_CacheOfCurrentIdentity ==
    \A k \in DOMAIN comparisonCache : k[1] = storedUsername

\* C20: when a load that was started under a visitor identity other than
\* the stored one resolves, its result is discarded: comparisonData stays
\* as it was.
C20_SupersededResultDiscarded ==
    [][\A i \in 1..Len(pending) :
          (/\ pending[i].user # storedUsername
           /\ pending' = SubSeq(pending, 1, i - 1) \o SubSeq(pending, i + 1, Len(pending)))
          => currentGameData'.comparisonData = currentGameData.comparisonData]_vars

\* C21: while no visitor username is stored the session is in normal mode,
\* no visitor data is being fetched or cached and no comparison has been
\* computed; and a selection modal that closes without a username being
\* stored leaves the session in normal mode.
C21_NothingWithoutIdentity ==
    storedUsername = NoUser =>
        /\ ~currentGameData.compareMode
        /\ currentGameData.comparisonData.isNull
        /\ call.pc \notin InFlight
        /\ pending = <<>>
        /\ comparisonCache = <<>>

C21_CancelLeavesNormalMode ==
    (call.pc \in {"modal", "modalChange"} /\ call'.pc = "idle" /\ storedUsername' = NoUser)
        => (~currentGameData'.compareMode /\ currentGameData'.comparisonData.isNull)

C21_NoComparisonWithoutIdentity ==
    []C21_NothingWithoutIdentity /\ [][C21_CancelLeavesNormalMode]_vars

C21_Witness ==
    /\ storedUsername = NoUser
    /\ currentGameData.open
    /\ call.pc = "modal"

\* C22: a checkPassport run on a query whose vs value (the first, as
\* params.get reads it) is non-empty stores that value as the visitor
\* identity and removes vs from the URL, leaving the rest of the URL; a run
\* on a query without vs changes neither the stored identity nor the URL;
\* and a run that follows another on the same page changes nothing.
C22_PassportStep ==
    passportChecks' = passportChecks + 1 =>
        /\ PassportUser(location) # "" =>
              /\ storedUsername' = location.vs[1]
              /\ location' = [vs |-> <<>>, game |-> location.game]
        /\ location.vs = <<>> => UNCHANGED <<storedUsername, location>>
        /\ passportChecks >= 1 => UNCHANGED <<storedUsername, location>>

C22_PassportConsumedOnce == [][C22_PassportStep]_vars

C22_Witness ==
    /\ passportChecks = 2
    /\ storedUsername = "carol"
    /\ location.vs = <<>>

\* C23: no step changes a game that gamesData already holds: its
\* achievements array keeps its entries, their order and their fields, and
\* the game the session shows stays the one that was opened.
C23_RosterStep ==
    /\ \A i \in 1..Len(gamesData) :
          i <= Len(gamesData') /\ gamesData'[i] = gamesData[i]
    /\ (currentGameData.open /\ currentGameData'.appId = currentGameData.appId)
          => currentGameData'.game = currentGameData.game

C23_RosterImmutable == [][C23_RosterStep]_vars

C23_Witness ==
    /\ summary.shown
    /\ currentGameData.comparisonData.hasData
    /\ currentGameData.sortMode = "date-newest"
    /\ UnlockedAchievementsView(currentGameData.game, "date-newest")
          # UnlockedAchievementsView(currentGameData.game, "default")
    /\ currentGameData.game \in Elems(gamesData)

\* ---------------------------------------------------------------------
\* C24
\* ---------------------------------------------------------------------
\* The load of the list is over: every folder had its turn, or every entry of
\* game-data.json was handed to processGameData, or init's catch ran.
LoadIsOver ==
    \/ loading.folders # <<>> /\ loading.next > Len(loading.folders)
    \/ /\ loading.folders = <<>>
       /\ gameDataJson.ok
       /\ loading.failed \/ Len(gamesData) = Len(gameDataJson.data)

FolderIsSound(folder) ==
    /\ folder.ach = "ok" \/ (folder.ach = "notok" /\ folder.db = "ok")
    /\ folder.body.kind \in {"map", "array"}

HasGame(appId) == \E i \in 1..Len(gamesData) : gamesData[i].appId = appId

\* C24: when the load of a list of games is over, every game whose source is
\* sound is in gamesData with the roster processGameData gives it alone, a
\* game whose fetch failed or whose data is malformed has no entry, and no
\* URL was fetched twice.
C24_FailureAffectsOnlyThatGame ==
    LoadIsOver =>
        /\ \A i \in 1..Len(loading.folders) :
              IF FolderIsSound(loading.folders[i])
              THEN \E j \in 1..Len(gamesData) :
                      gamesData[j] = ProcessGameData(i, NormalizeLoaded(loading.folders[i].body),
                                        IF loading.folders[i].info.status = "ok"
                                        THEN loading.folders[i].info.gameInfo ELSE NullInfo)
              ELSE ~HasGame(i)
        /\ \A i, j \in 1..Len(loading.fetched) :
              loading.fetched[i] = loading.fetched[j] => i = j
        /\ loading.folders = <<>> =>
              \A i \in 1..Len(gameDataJson.data) :
                 IF i \in gameDataJson.malformed
                 THEN ~HasGame(gameDataJson.data[i].appid)
                 ELSE \E j \in 1..Len(gamesData) :
                         gamesData[j] = ProcessGameData(gameDataJson.data[i].appid,
                                           gameDataJson.data[i].achievements,
                                           gameDataJson.data[i].info)

\* ---------------------------------------------------------------------
\* C25
\* ---------------------------------------------------------------------
\* The folders whose loop turn is over and whose save data was an array.
ConvertedFolders ==
    {i \in 1..(loading.next - 1) :
        /\ i <= Len(loading.folders)
        /\ FolderIsSound(loading.folders[i])
        /\ loading.folders[i].body.kind = "array"}

\* C25: for every sequence-shaped save file the owner's loader has gone
\* through, the mapping it built has exactly the apinames of the sequence as
\* keys (the entries without an apiname are dropped), the game was loaded
\* (no error was raised), and both the mapping and the roster are the ones
\* the visitor's load path gives for the same sequence.
C25_SameConversionOnBothPaths ==
    \A i \in ConvertedFolders :
        LET folder == loading.folders[i]
            arr == folder.body.array
            gameInfo == IF folder.info.status = "ok" THEN folder.info.gameInfo ELSE NullInfo
            ofOwner == ConvertArrayOfLoader(arr)
            ofVisitor == NormalizeSaveData(folder.body)
        IN  /\ DOMAIN ofOwner = {arr[j].apiname : j \in 1..Len(arr)} \ {""}
            /\ ofOwner = ofVisitor
            /\ \E j \in 1..Len(gamesData) :
                  gamesData[j] = ProcessGameData(i, ofVisitor, gameInfo)

\* A sequence with a nameless entry and a boolean achieved has been converted.
C25_Witness ==
    \E i \in ConvertedFolders :
        LET arr == loading.folders[i].body.array
        IN  /\ \E j \in 1..Len(arr) : arr[j].apiname = ""
            /\ \E j \in 1..Len(arr) : arr[j].apiname # "" /\ arr[j].achieved = JsTrue
            /\ HasGame(i)

\* ---------------------------------------------------------------------
\* C26
\* ---------------------------------------------------------------------
\* Every result loadOwnGameData can give for one of the listed logins.
AnyLoadResult == UNION {LoadResults(user) : user \in users}

\* C26: a comparison held in window.currentGameData.comparisonData was
\* computed from the game held in window.currentGameData, and while compare
\* mode is off (after showGameDetail or disableCompareMode, before the next
\* request) comparisonData is null.
C26_ComparisonOfSessionGame ==
    /\ ~currentGameData.comparisonData.isNull =>
          \E ownData \in AnyLoadResult :
             currentGameData.comparisonData = ComparisonOf(currentGameData.game, ownData)
    /\ ~currentGameData.compareMode => currentGameData.comparisonData.isNull

\* ---------------------------------------------------------------------
\* C27
\* ---------------------------------------------------------------------
\* C27: once the hub or the profile page has gone through game-data.json,
\* every game of it has the same total, the same unlocked count and the same
\* perfect-game verdict in the hub's loadGameData as in the roster
\* processGameData builds and displayGames counts.
C27_HubAndProfileAgree ==
    (gameDataJson.ok /\ (summary.shown \/ person.loaded)) =>
        \A i \in 1..Len(gameDataJson.data) :
            LET g == gameDataJson.data[i]
                game == IF summary.shown THEN gamesData[i]
                        ELSE ProcessGameData(g.appid, g.achievements, g.info)
            IN  /\ HubTotalCount(g) = Len(game.achievements)
                /\ HubEarnedCount(g) = UnlockedCount(game)
                /\ HubCountsPerfect(g) <=> DisplayCountsPerfect(game)

\* ---------------------------------------------------------------------
\* C28
\* ---------------------------------------------------------------------
\* C28: when the session holds a comparison against visitor data whose
\* exclusion list is empty, theirTotal of that comparison is the unlocked
\* count showGameDetail computed for the normal view of the same roster.
C28_OwnerCountSameInBothViews ==
    LET key == <<storedUsername, currentGameData.appId>>
    IN  (/\ currentGameData.open
         /\ ~currentGameData.comparisonData.isNull
         /\ currentGameData.comparisonData.hasData
         /\ key \in DOMAIN comparisonCache
         /\ ~comparisonCache[key].isNull
         /\ comparisonCache[key].blacklist = <<>>)
        => GetComparisonStats(currentGameData.comparisonData.comparison).theirTotal
              = currentGameData.unlocked

\* ---------------------------------------------------------------------
\* C29
\* ---------------------------------------------------------------------
\* C29: when a handler starts to await loadOwnGameData, the detail view it
\* has rendered is not the "No Data Found" outcome: that view appears only
\* once the load has completed with null.
C29_NoDataOnlyAfterLoad ==
    [][(call.pc \notin InFlight /\ call'.pc \in InFlight)
          => DetailView(currentGameData') # "no-data"]_vars

\* ---------------------------------------------------------------------
\* C30
\* ---------------------------------------------------------------------
\* A result stored for a pair is the result of every later call: the entry is
\* not replaced as long as the cache is not cleared.
C30_ResultKept ==
    \A k \in DOMAIN comparisonCache :
        k \in DOMAIN comparisonCache' => comparisonCache'[k] = comparisonCache[k]

\* A call for a cached pair fetches nothing and gives the stored result.
C30_CacheHitFetchesNothing ==
    LET k == <<storedUsername', currentGameData.appId>>
    IN  (/\ call.pc \in {"idle", "modal"}
         /\ currentGameData'.compareMode /\ ~currentGameData.compareMode
         /\ k \in DOMAIN comparisonCache)
        => /\ call'.pc \notin InFlight
           /\ currentGameData'.comparisonData =
                 ComparisonOf(currentGameData.game, comparisonCache[k])

\* The .db file is asked for only after achievements.json was not ok, the
\* answer is parsed only after one of the two was ok, game-info.json is asked
\* for only after the parse, and whatever game-info.json gives, the load
\* then ends with data.
C30_FetchOrder ==
    /\ (call'.pc = "fetchDb" /\ call.pc # "fetchDb") => call.pc = "fetchAch"
    /\ (call'.pc = "parse" /\ call.pc # "parse") => call.pc \in {"fetchAch", "fetchDb"}
    /\ (call'.pc = "fetchInfo" /\ call.pc # "fetchInfo") => call.pc = "parse"
    /\ (call.pc = "fetchInfo" /\ call'.pc = "idle") =>
          LET k == <<call.user, call.appId>>
          IN  /\ k \in DOMAIN comparisonCache'
              /\ ~comparisonCache'[k].isNull
              /\ comparisonCache'[k].achievementsData = call.achievementsData
              /\ lastFetch' = "loaded"

\* C30: a completed loadOwnGameData result is what every later call for the
\* same pair gets, without a fetch, until the cache is cleared; and within
\* one load the fetches come in the order achievements.json, .db (only after
\* a not-ok answer), game-info.json (only after a parsed save file), whose
\* failure does not fail the load.
C30_CachedAndOrdered ==
    [][C30_ResultKept /\ C30_CacheHitFetchesNothing /\ C30_FetchOrder]_vars

====
